---- MODULE Spec2Model ----
(***************************************************************************)
(* Model of the wall split-face script (main_script.py) and of the helper  *)
(* utils.calculate_room_height (utils.py).                                 *)
(*                                                                         *)
(* Lengths are integers in units of 0.1 mm = 1/3048 ft, so that the        *)
(* conversion height_mm * (1 / 304.8) ft is exact: a text value in mm with *)
(* at most one decimal digit is an integer number of units.                *)
(* Points are <<x, y, z>> with z the elevation.                            *)
(***************************************************************************)
EXTENDS Integers, Sequences, FiniteSets, TLC

VARIABLES
    pc,         \* position of the script: main_script.py:185-214
    tx,         \* edit scope: "none", "held", "released"
    acquired,   \* number of EnsureInTransaction calls
    released,   \* number of TransactionTaskDone calls
    nwalls,     \* number of walls returned by the collector
    w,          \* index of the wall of the current iteration
    faces,      \* side faces of the current wall (result of get_vertical_faces)
    f,          \* index of the face of the current iteration
    room,       \* local `room` of the loop body: the Room and its parameter
    height,     \* local `height` of the loop body
    profile,    \* local `profile` of the loop body
    logs,       \* the global list `logs`
    nfaces,     \* per wall: number of side faces its geometry has
    visited,    \* (wall, face) pairs whose loop body was entered
    splits,     \* (wall, face) pairs for which doc.SplitFace was called
    splitTx,    \* state of the edit scope at each doc.SplitFace call
    probe,      \* last call of get_adjacent_room: world, queries, result
    build,      \* last call of create_split_profile: face, height, result
    hres,       \* last call of utils.calculate_room_height: room, result
    hostTol     \* point-coincidence tolerance of the host's CurveLoop checks

vars == <<pc, tx, acquired, released, nwalls, w, faces, f, room, height,
          profile, logs, nfaces, visited, splits, splitTx, probe, build,
          hres, hostTol>>

----------------------------------------------------------------------------
(* Bounds of the model *)
MaxWalls == 2
MaxFaces == 2

(* Program constants *)
\* TOLERANCE = app.ShortCurveTolerance * 1.01 (about 0.0026 ft), in units
TOLERANCE == 8
\* EPSILONS = [0.01, 0.1, 0.5, 1.0], in hundredths of a foot
EPSILONS == <<1, 10, 50, 100>>
\* threshold of |FaceNormal . BasisZ| < 0.01, in thousandths
NORMAL_TOL == 10

None == <<>>

Abs(x) == IF x < 0 THEN -x ELSE x

RECURSIVE SeqMin(_), SeqMax(_)
SeqMin(s) == IF Len(s) = 1 THEN s[1]
             ELSE LET m == SeqMin(Tail(s)) IN IF s[1] < m THEN s[1] ELSE m
SeqMax(s) == IF Len(s) = 1 THEN s[1]
             ELSE LET m == SeqMax(Tail(s)) IN IF s[1] > m THEN s[1] ELSE m

Reverse(s) == [i \in 1..Len(s) |-> s[Len(s) + 1 - i]]

----------------------------------------------------------------------------
(* Geometry: curves are bound lines [p0, p1] *)

Line(a, b) == [p0 |-> a, p1 |-> b]

\* XYZ.DistanceTo, squared
Dist2(p, q) == (p[1] - q[1]) * (p[1] - q[1]) + (p[2] - q[2]) * (p[2] - q[2])
               + (p[3] - q[3]) * (p[3] - q[3])

\* dist < TOLERANCE
ShorterThanTol(p, q) == Dist2(p, q) < TOLERANCE * TOLERANCE

\* Curve.CreateReversed
CreateReversed(c) == Line(c.p1, c.p0)

\* CurveLoop.CreateViaTransform(loop, Transform.CreateTranslation(XYZ(0,0,h)))
CreateViaTransform(loop, h) ==
    [i \in 1..Len(loop) |->
        Line(<<loop[i].p0[1], loop[i].p0[2], loop[i].p0[3] + h>>,
             <<loop[i].p1[1], loop[i].p1[2], loop[i].p1[3] + h>>)]

\* all_points = [p for curve in curves for p in [end 0, end 1]], Z only
AllZ(curves) ==
    [i \in 1..(2 * Len(curves)) |->
        IF i % 2 = 1 THEN curves[(i + 1) \div 2].p0[3]
                     ELSE curves[i \div 2].p1[3]]

\* bottom_loop: curves with both ends within TOLERANCE of min_z, short ones
\* skipped
RECURSIVE BottomLoop(_, _)
BottomLoop(curves, min_z) ==
    IF curves = <<>> THEN <<>>
    ELSE LET c == Head(curves)
             rest == BottomLoop(Tail(curves), min_z)
         IN IF Abs(c.p0[3] - min_z) < TOLERANCE /\ Abs(c.p1[3] - min_z) < TOLERANCE
            THEN IF ShorterThanTol(c.p0, c.p1) THEN rest ELSE <<c>> \o rest
            ELSE rest

\* vertical_lines: per bottom curve, the start connector then the end
\* connector, each kept only when dist >= TOLERANCE
RECURSIVE VerticalLines(_, _)
VerticalLines(bottom_curves, top_curves) ==
    IF bottom_curves = <<>> THEN <<>>
    ELSE LET b == Head(bottom_curves)
             t == Head(top_curves)
             vs == IF ~ShorterThanTol(b.p0, t.p0) THEN <<Line(b.p0, t.p0)>> ELSE <<>>
             ve == IF ~ShorterThanTol(b.p1, t.p1) THEN <<Line(b.p1, t.p1)>> ELSE <<>>
         IN vs \o ve \o VerticalLines(Tail(bottom_curves), Tail(top_curves))

\* profile: bottom + verticals + reversed top + reversed verticals
Assemble(bottom_curves, vertical_lines, top_curves) ==
    bottom_curves \o vertical_lines
        \o [i \in 1..Len(top_curves) |-> CreateReversed(Reverse(top_curves)[i])]
        \o [i \in 1..Len(vertical_lines) |-> CreateReversed(Reverse(vertical_lines)[i])]

\* profile.IsClosed(): the host finds the end of every curve at the start of
\* the next one, and the end of the last at the start of the first, within
\* its own point tolerance tol
IsClosed(loop, tol) ==
    /\ loop # <<>>
    /\ \A i \in 1..Len(loop) :
          Dist2(loop[i].p1, loop[(i % Len(loop)) + 1].p0) <= tol * tol

\* profile.IsPlanar(): the loop is made of horizontal chains and vertical
\* connectors, so it lies in one plane exactly when the plan views of all its
\* end points are on one line through the first curve
Cross(o, a, b) == (a[1] - o[1]) * (b[2] - o[2]) - (a[2] - o[2]) * (b[1] - o[1])

IsPlanar(loop) ==
    \A i \in 1..Len(loop) :
        /\ Cross(loop[1].p0, loop[1].p1, loop[i].p0) = 0
        /\ Cross(loop[1].p0, loop[1].p1, loop[i].p1) = 0

\* the validation with the closure test left out
ValidatedPlanarOnly(loop, tol) == IsPlanar(loop)

\* line 175: the loop passes the host's validation
Validated(loop, tol) == IsClosed(loop, tol) /\ IsPlanar(loop)

\* the range test with the upper end not strict
HeightInvalidNonStrict(h, wall_height) == h > wall_height \/ h <= 0

\* line 115: height >= wall_height or height <= 0
HeightInvalid(h, wall_height) == h >= wall_height \/ h <= 0

Failure(reason, assembled) ==
    [ok |-> FALSE, reason |-> reason, profile |-> None, assembled |-> assembled]

\* create_split_profile(face, height); tol is the host's point tolerance
create_split_profile(face, h, tol) ==
    IF face.loops = 0 \/ face.edges = <<>>
    THEN Failure("Error", <<>>)                 \* get_Item(0) / min() raise
    ELSE
    LET curves == face.edges
        min_z == SeqMin(AllZ(curves))
        max_z == SeqMax(AllZ(curves))
        wall_height == max_z - min_z
    IN  IF HeightInvalid(h, wall_height)
        THEN Failure("HeightOutOfRange", <<>>)
        ELSE
        LET bottom_curves == BottomLoop(curves, min_z)
        IN  IF Len(bottom_curves) = 0
            THEN Failure("NoBottomCurves", <<>>)
            ELSE
            LET top_curves == CreateViaTransform(bottom_curves, h)
                vertical_lines == VerticalLines(bottom_curves, top_curves)
                loop == Assemble(bottom_curves, vertical_lines, top_curves)
            IN  IF ~Validated(loop, tol)
                THEN Failure("InvalidLoop", loop)
                ELSE [ok |-> TRUE, reason |-> "OK", profile |-> loop,
                      assembled |-> loop]

----------------------------------------------------------------------------
(* Faces *)

Pt(x, z) == <<x, 0, z>>

\* edge loop of a rectangular face of width wd and vertical extent [z0, z0+ht]:
\* one bottom edge, one vertical edge, one top edge, one vertical edge
RectEdges(wd, z0, ht) ==
    << Line(Pt(0, z0), Pt(wd, z0)), Line(Pt(wd, z0), Pt(wd, z0 + ht)),
       Line(Pt(wd, z0 + ht), Pt(0, z0 + ht)), Line(Pt(0, z0 + ht), Pt(0, z0)) >>

Face(name, planar, ndotz, loops, edges) ==
    [name |-> name, planar |-> planar, ndotz |-> ndotz, loops |-> loops,
     edges |-> edges]

BigW == 3048        \* 1 ft
BigH == 30480       \* 10 ft
SmallH == 20        \* 2 mm

RectFace == Face("rect", TRUE, 0, 1, RectEdges(BigW, 0, BigH))
LowFace == Face("low", TRUE, 5, 1, RectEdges(BigW, 0, SmallH))
\* the same rectangle, wound the other way
RectRevFace ==
    Face("rectrev", TRUE, 0, 1,
         [i \in 1..4 |-> CreateReversed(Reverse(RectEdges(BigW, 0, BigH))[i])])
\* a rectangle on a vertical plane that is diagonal in plan
DiagFace ==
    Face("diag", TRUE, 0, 1,
         << Line(<<0, 0, 0>>, <<BigW, BigW, 0>>),
            Line(<<BigW, BigW, 0>>, <<BigW, BigW, BigH>>),
            Line(<<BigW, BigW, BigH>>, <<0, 0, BigH>>),
            Line(<<0, 0, BigH>>, <<0, 0, 0>>) >>)
\* bottom made of a degenerate edge (5 units) and a long one
ShortBottomFace ==
    Face("shortbottom", TRUE, 0, 1,
         << Line(Pt(0, 0), Pt(5, 0)), Line(Pt(5, 0), Pt(BigW, 0)),
            Line(Pt(BigW, 0), Pt(BigW, BigH)), Line(Pt(BigW, BigH), Pt(0, BigH)),
            Line(Pt(0, BigH), Pt(0, 0)) >>)
\* bottom made of two long edges
TwoBottomFace ==
    Face("twobottom", TRUE, 0, 1,
         << Line(Pt(0, 0), Pt(1000, 0)), Line(Pt(1000, 0), Pt(BigW, 0)),
            Line(Pt(BigW, 0), Pt(BigW, BigH)), Line(Pt(BigW, BigH), Pt(0, BigH)),
            Line(Pt(0, BigH), Pt(0, 0)) >>)
\* a triangle standing on one vertex: no edge lies at min_z
ApexFace ==
    Face("apex", TRUE, 0, 1,
         << Line(Pt(1000, 0), Pt(BigW, BigH)), Line(Pt(BigW, BigH), Pt(0, BigH)),
            Line(Pt(0, BigH), Pt(1000, 0)) >>)
\* a face whose only bottom edge is degenerate
OnlyShortBottomFace ==
    Face("onlyshort", TRUE, 0, 1,
         << Line(Pt(0, 0), Pt(5, 0)), Line(Pt(5, 0), Pt(BigW, BigH)),
            Line(Pt(BigW, BigH), Pt(0, BigH)), Line(Pt(0, BigH), Pt(0, 0)) >>)
\* a rectangle standing above elevation zero
RaisedFace == Face("raised", TRUE, 0, 1, RectEdges(BigW, 1000, BigH))
\* a face without edge loops
NoLoopFace == Face("noloop", TRUE, 0, 0, <<>>)
\* horizontal top face of the wall solid, and a cylindrical side face
TopFace == Face("top", TRUE, 1000, 1, <<>>)
CurvedFace == Face("curved", FALSE, 0, 1, <<>>)

RectangularFaces == {RectFace, LowFace, RectRevFace, DiagFace, RaisedFace}

ProfileFaces ==
    RectangularFaces \cup {ShortBottomFace, TwoBottomFace, ApexFace,
                           OnlyShortBottomFace, NoLoopFace}

ProfileHeights ==
    {-10, 0, 5, TOLERANCE - 1, TOLERANCE, 10, SmallH, 12192, BigH - 1, BigH, 40000}

\* The point tolerance of the host's closure test is not set by the script.
\* It is below the shortest curve the host accepts, hence below TOLERANCE:
\* either exact coincidence or any gap shorter than TOLERANCE.
HostTols == {0, TOLERANCE - 1}

\* vertical extent of a face and of a loop
Extent(curves) == SeqMax(AllZ(curves)) - SeqMin(AllZ(curves))

----------------------------------------------------------------------------
(* get_vertical_faces *)

\* faces of one geometry object: only a Solid contributes, and of its faces
\* the planar ones with |FaceNormal . BasisZ| < 0.01
RECURSIVE SolidFaces(_)
SolidFaces(fs) ==
    IF fs = <<>> THEN <<>>
    ELSE IF Head(fs).planar /\ Abs(Head(fs).ndotz) < NORMAL_TOL
         THEN <<Head(fs)>> \o SolidFaces(Tail(fs))
         ELSE SolidFaces(Tail(fs))

RECURSIVE get_vertical_faces(_)
get_vertical_faces(geo_elem) ==
    IF geo_elem = <<>> THEN <<>>
    ELSE (IF Head(geo_elem).solid THEN SolidFaces(Head(geo_elem).faces) ELSE <<>>)
         \o get_vertical_faces(Tail(geo_elem))

Solid(fs) == [solid |-> TRUE, faces |-> fs]
\* a geometry object that is not a Solid (a curve, an instance)
NonSolid == [solid |-> FALSE, faces |-> <<RectFace>>]

SideChoices == {RectFace}

\* wall geometries: a solid with top and bottom faces and up to MaxFaces side
\* faces, possibly next to a non-solid object or a curved face
Geometries ==
    {<<>>, <<NonSolid>>, <<Solid(<<TopFace, CurvedFace, TopFace>>)>>}
    \cup {<<NonSolid, Solid(<<TopFace>> \o sides \o <<CurvedFace>>)>> :
            sides \in UNION {[1..n -> SideChoices] : n \in 1..MaxFaces}}

----------------------------------------------------------------------------
(* get_adjacent_room *)

\* the points P + eps*N and P - eps*N are named by their signed offset; a
\* world maps each of them to the room containing it, 0 for no room
Offsets == {EPSILONS[i] : i \in 1..Len(EPSILONS)}
             \cup {-EPSILONS[i] : i \in 1..Len(EPSILONS)}
Rooms == {1, 2}
NoRoom == 0
Worlds == [Offsets -> Rooms \cup {NoRoom}]

\* doc.GetRoomAtPoint(point_on_face + normal * offset, phase)
GetRoomAtPoint(world, offset) == world[offset]

\* the loop over EPSILONS from index i on, with the queries issued so far
RECURSIVE AdjacentFrom(_, _, _)
AdjacentFrom(world, i, queries) ==
    IF i > Len(EPSILONS)
    THEN [room |-> NoRoom, queries |-> queries, logged |-> TRUE]
    ELSE LET eps == EPSILONS[i]
             r == GetRoomAtPoint(world, eps)
         IN IF r # NoRoom
            THEN [room |-> r, queries |-> Append(queries, eps), logged |-> FALSE]
            ELSE LET r_rev == GetRoomAtPoint(world, -eps)
                     q2 == queries \o <<eps, -eps>>
                 IN IF r_rev # NoRoom
                    THEN [room |-> r_rev, queries |-> q2, logged |-> FALSE]
                    ELSE AdjacentFrom(world, i + 1, q2)

\* the search starting at the second magnitude
get_adjacent_room_from_second(world) == AdjacentFrom(world, 2, <<>>)

get_adjacent_room(world) == AdjacentFrom(world, 1, <<>>)

----------------------------------------------------------------------------
(* calculate_room_height of main_script.py: the attribute-based policy *)

Digits == <<"0", "1", "2", "3", "4", "5", "6", "7", "8", "9">>
IsDigit(c) == \E d \in 1..10 : Digits[d] = c
DigitVal(c) == (CHOOSE d \in 1..10 : Digits[d] = c) - 1

RECURSIVE DigitsVal(_, _)
DigitsVal(cs, acc) ==
    IF cs = <<>> THEN acc ELSE DigitsVal(Tail(cs), 10 * acc + DigitVal(Head(cs)))

DotPositions(cs) == {i \in 1..Len(cs) : cs[i] = "."}

\* float(value) for a text of the form [sign] digits [. digits], followed by
\* * MM_TO_FEET: the result is in units of 0.1 mm.  None raises TypeError, a
\* text that is no number raises ValueError.
ParseFloat(value) ==
    IF value.isNone THEN [exc |-> "TypeError", v |-> 0]
    ELSE
    LET signed == Len(value.text) > 0 /\ value.text[1] \in {"-", "+"}
        body == IF signed THEN Tail(value.text) ELSE value.text
        dots == DotPositions(body)
        dot == IF dots = {} THEN Len(body) + 1 ELSE CHOOSE i \in dots : TRUE
        ip == SubSeq(body, 1, dot - 1)
        fp == SubSeq(body, dot + 1, Len(body))
        wellformed == /\ Cardinality(dots) <= 1
                      /\ Len(ip) + Len(fp) >= 1
                      /\ \A i \in 1..Len(ip) : IsDigit(ip[i])
                      /\ \A i \in 1..Len(fp) : IsDigit(fp[i])
        mag == 10 * DigitsVal(ip, 0) + (IF fp = <<>> THEN 0 ELSE DigitVal(fp[1]))
    IN IF ~wellformed THEN [exc |-> "ValueError", v |-> 0]
       ELSE [exc |-> "none",
             v |-> IF signed /\ value.text[1] = "-" THEN -mag ELSE mag]

\* param.AsString(): a text, or None for a parameter that holds no value
Text(cs) == [isNone |-> FALSE, text |-> cs]
NoValue == [isNone |-> TRUE, text |-> <<>>]
\* room.LookupParameter("Headroom Requirement"): None when the room has no
\* such parameter, else its storage type and value
Param(storage, value) == [present |-> TRUE, storage |-> storage, value |-> value]
NoParam == [present |-> FALSE, storage |-> "None", value |-> NoValue]

Height(v) == [isNone |-> FALSE, v |-> v]
NoHeight == [isNone |-> TRUE, v |-> 0]

\* result: the returned height (None for no height), the exception that
\* leaves the function, and the messages appended to logs
calculate_room_height(param) ==
    IF param.present /\ param.storage = "String"
    THEN LET r == ParseFloat(param.value)
         IN IF r.exc = "none"
            THEN [height |-> Height(r.v), raised |-> "none", log |-> <<>>]
            ELSE IF r.exc = "ValueError"
            THEN [height |-> NoHeight, raised |-> "none", log |-> <<"Invalid height value">>]
            ELSE [height |-> NoHeight, raised |-> r.exc, log |-> <<>>]
    ELSE [height |-> NoHeight, raised |-> "none", log |-> <<"Parameter not found or invalid">>]

\* `not height`
Falsy(h) == h.isNone \/ h.v = 0

----------------------------------------------------------------------------
(* calculate_room_height of utils.py: the bounds-based policy *)

MockRoom(unbounded_height, base_offset, limit_offset, level_elev, upper_level_elev) ==
    [UnboundedHeight |-> unbounded_height, BaseOffset |-> base_offset,
     LimitOffset |-> limit_offset, LevelElevation |-> level_elev,
     UpperLimitElevation |-> upper_level_elev]

\* the computation with the base offset left out
utils_calculate_room_height_no_base_offset(r) ==
    IF r.UnboundedHeight = 0
    THEN (r.UpperLimitElevation + r.LimitOffset) - r.LevelElevation
    ELSE r.UnboundedHeight

utils_calculate_room_height(r) ==
    IF r.UnboundedHeight = 0
    THEN LET base_elev == r.LevelElevation + r.BaseOffset
             upper_elev == r.UpperLimitElevation + r.LimitOffset
         IN upper_elev - base_elev
    ELSE r.UnboundedHeight

BoundsRooms ==
    { MockRoom(uh, bo, lo, le, ue) :
        uh \in {0, 8, -1}, bo \in {-1, 0, 1}, lo \in {-2, 0, 2},
        le \in {0, 3}, ue \in {3, 10} }

----------------------------------------------------------------------------
(* The script: main_script.py:185-228 *)

Entry(wall, face, kind) == [wall |-> wall, face |-> face, kind |-> kind]
\* a message appended inside a helper function; it names no wall
Inner(kind) == Entry(0, 0, kind)

IdleProbe == [called |-> FALSE, world |-> [o \in Offsets |-> NoRoom],
              queries |-> <<>>, room |-> NoRoom]
IdleBuild == [called |-> FALSE, face |-> NoLoopFace, h |-> 0,
              result |-> Failure("Error", <<>>)]
IdleHres == [called |-> FALSE, room |-> MockRoom(0, 0, 0, 0, 0), result |-> 0]

\* a Room of the document with its "Headroom Requirement" parameter
RoomObj(id, param) == [id |-> id, param |-> param]
NoRoomObj == RoomObj(NoRoom, NoParam)

Init ==
    /\ pc = "start"
    /\ tx = "none" /\ acquired = 0 /\ released = 0
    /\ nwalls = 0 /\ w = 0 /\ faces = <<>> /\ f = 0
    /\ room = NoRoomObj /\ height = 0 /\ profile = None
    /\ logs = <<>>
    /\ nfaces = [i \in 1..MaxWalls |-> 0]
    /\ visited = {} /\ splits = {} /\ splitTx = {}
    /\ probe = IdleProbe /\ build = IdleBuild /\ hres = IdleHres
    /\ hostTol \in HostTols

\* line 185: TransactionManager.Instance.EnsureInTransaction(doc)
EnsureInTransaction ==
    /\ pc = "start"
    /\ tx' = "held" /\ acquired' = acquired + 1
    /\ pc' = "collect"
    /\ UNCHANGED <<released, nwalls, w, faces, f, room, height, profile, logs,
                   nfaces, visited, splits, splitTx, probe, build, hres, hostTol>>

\* line 187: the collector returns the walls of the document
CollectWalls ==
    /\ pc = "collect"
    /\ \E n \in 0..MaxWalls : nwalls' = n
    /\ w' = 1
    /\ pc' = "wall"
    /\ UNCHANGED <<tx, acquired, released, faces, f, room, height, profile, logs,
                   nfaces, visited, splits, splitTx, probe, build, hres, hostTol>>

\* line 187 raises: nothing encloses it, the script ends there
CollectWallsRaises ==
    /\ pc = "collect"
    /\ pc' = "aborted"
    /\ UNCHANGED <<tx, acquired, released, nwalls, w, faces, f, room, height,
                   profile, logs, nfaces, visited, splits, splitTx, probe, build,
                   hres, hostTol>>

\* lines 189-191: next wall, faces = get_vertical_faces(wall)
NextWall ==
    /\ pc = "wall" /\ w <= nwalls
    /\ \E geo_elem \in Geometries :
          /\ faces' = get_vertical_faces(geo_elem)
          /\ nfaces' = [nfaces EXCEPT ![w] = Len(get_vertical_faces(geo_elem))]
    /\ f' = 1
    /\ pc' = "face"
    /\ UNCHANGED <<tx, acquired, released, nwalls, w, room, height, profile, logs,
                   visited, splits, splitTx, probe, build, hres, hostTol>>

\* lines 191, 211-212: wall.get_Geometry gives no geometry, iterating it raises
NextWallRaises ==
    /\ pc = "wall" /\ w <= nwalls
    /\ logs' = Append(logs, Entry(w, 0, "ErrorOnWall"))
    /\ w' = w + 1
    /\ UNCHANGED <<pc, tx, acquired, released, nwalls, faces, f, room, height,
                   profile, nfaces, visited, splits, splitTx, probe, build, hres,
                   hostTol>>

\* line 192 exhausted: back to line 189
EndOfFaces ==
    /\ pc = "face" /\ f > Len(faces)
    /\ w' = w + 1
    /\ pc' = "wall"
    /\ UNCHANGED <<tx, acquired, released, nwalls, faces, f, room, height, profile,
                   logs, nfaces, visited, splits, splitTx, probe, build, hres,
                   hostTol>>

MainWorlds ==
    { [o \in Offsets |-> NoRoom],
      [o \in Offsets |-> IF o <= -50 THEN 1 ELSE NoRoom] }

MainParams ==
    { NoParam, Param("Double", NoValue), Param("String", NoValue),
      Param("String", Text(<<"a", "b", "c">>)),
      Param("String", Text(<<"0", ".", "5">>)),
      Param("String", Text(<<"2", "1", "0", "0">>)) }

\* lines 192-196: next face, room = get_adjacent_room(face)
LocateRoom ==
    /\ pc = "face" /\ f <= Len(faces)
    /\ visited' = visited \cup {<<w, f>>}
    /\ \E world \in MainWorlds, param \in MainParams :
          LET r == get_adjacent_room(world)
          IN /\ room' = IF r.room = NoRoom THEN NoRoomObj ELSE RoomObj(r.room, param)
             /\ IF r.room = NoRoom
                THEN /\ logs' = logs \o <<Inner("DebugNoRoom"), Entry(w, f, "NoRoom")>>
                     /\ f' = f + 1
                     /\ pc' = "face"
                ELSE /\ logs' = logs
                     /\ f' = f
                     /\ pc' = "height"
    /\ UNCHANGED <<tx, acquired, released, nwalls, w, faces, height, profile,
                   nfaces, splits, splitTx, probe, build, hres, hostTol>>

\* lines 198-201 and 211-212: height = calculate_room_height(room)
ResolveHeight ==
    /\ pc = "height"
    /\ LET r == calculate_room_height(room.param)
       IN    /\ IF r.raised # "none"
                THEN /\ logs' = Append(logs, Entry(w, f, "ErrorOnWall"))
                     /\ w' = w + 1 /\ f' = f
                     /\ pc' = "wall"
                     /\ height' = height
                ELSE IF Falsy(r.height)
                THEN /\ logs' = logs \o [i \in 1..Len(r.log) |-> Inner(r.log[i])]
                                     \o <<Entry(w, f, "InvalidHeight")>>
                     /\ w' = w /\ f' = f + 1
                     /\ pc' = "face"
                     /\ height' = height
                ELSE /\ logs' = logs
                     /\ w' = w /\ f' = f
                     /\ pc' = "profile"
                     /\ height' = r.height.v
    /\ UNCHANGED <<tx, acquired, released, nwalls, faces, room, profile, nfaces,
                   visited, splits, splitTx, probe, build, hres, hostTol>>

\* lines 203-206: profile = create_split_profile(face, height)
BuildProfile ==
    /\ pc = "profile"
    /\ LET r == create_split_profile(faces[f], height, hostTol)
       IN /\ profile' = r.profile
          /\ IF ~r.ok
             THEN /\ logs' = logs \o <<Inner(r.reason), Entry(w, f, "InvalidProfile")>>
                  /\ f' = f + 1
                  /\ pc' = "face"
             ELSE /\ logs' = logs
                  /\ f' = f
                  /\ pc' = "split"
    /\ UNCHANGED <<tx, acquired, released, nwalls, w, faces, room, height, nfaces,
                   visited, splits, splitTx, probe, build, hres, hostTol>>

\* lines 208-209: new_face = doc.SplitFace(face, profile) succeeds
SplitFace ==
    /\ pc = "split"
    /\ splits' = splits \cup {<<w, f>>}
    /\ splitTx' = splitTx \cup {tx}
    /\ logs' = Append(logs, Entry(w, f, "Success"))
    /\ f' = f + 1
    /\ pc' = "face"
    /\ UNCHANGED <<tx, acquired, released, nwalls, w, faces, room, height, profile,
                   nfaces, visited, probe, build, hres, hostTol>>

\* lines 208, 211-212: doc.SplitFace rejects the profile by raising
SplitFaceRaises ==
    /\ pc = "split"
    /\ splits' = splits \cup {<<w, f>>}
    /\ splitTx' = splitTx \cup {tx}
    /\ logs' = Append(logs, Entry(w, f, "ErrorOnWall"))
    /\ w' = w + 1
    /\ pc' = "wall"
    /\ UNCHANGED <<tx, acquired, released, nwalls, faces, f, room, height, profile,
                   nfaces, visited, probe, build, hres, hostTol>>

\* line 214: TransactionManager.Instance.TransactionTaskDone()
TransactionTaskDone ==
    /\ pc = "wall" /\ w > nwalls
    /\ tx' = "released" /\ released' = released + 1
    /\ pc' = "write"
    /\ UNCHANGED <<acquired, nwalls, w, faces, f, room, height, profile, logs,
                   nfaces, visited, splits, splitTx, probe, build, hres, hostTol>>

\* lines 216-228: the log file is written, or writing it raises; OUT = logs
WriteLogs ==
    /\ pc = "write"
    /\ \E kind \in {"LogsWritten", "ErrorWritingLogs"} :
          logs' = Append(logs, Inner(kind))
    /\ pc' = "done"
    /\ UNCHANGED <<tx, acquired, released, nwalls, w, faces, f, room, height,
                   profile, nfaces, visited, splits, splitTx, probe, build, hres,
                   hostTol>>

Next ==
    \/ EnsureInTransaction
    \/ CollectWalls
    \/ CollectWallsRaises
    \/ NextWall
    \/ NextWallRaises
    \/ EndOfFaces
    \/ LocateRoom
    \/ ResolveHeight
    \/ BuildProfile
    \/ SplitFace
    \/ SplitFaceRaises
    \/ TransactionTaskDone
    \/ WriteLogs

Spec == Init /\ [][Next]_vars

----------------------------------------------------------------------------
(* The helper functions called on their own *)

InitLib ==
    /\ pc = "lib"
    /\ tx = "none" /\ acquired = 0 /\ released = 0
    /\ nwalls = 0 /\ w = 0 /\ faces = <<>> /\ f = 0
    /\ room = NoRoomObj /\ height = 0 /\ profile = None
    /\ logs = <<>>
    /\ nfaces = [i \in 1..MaxWalls |-> 0]
    /\ visited = {} /\ splits = {} /\ splitTx = {}

libvars == <<pc, tx, acquired, released, nwalls, w, faces, f, room, height,
             profile, logs, nfaces, visited, splits, splitTx>>

\* get_adjacent_room(face) in any world around the face
InitRoom ==
    /\ InitLib
    /\ probe \in {[IdleProbe EXCEPT !.world = world] : world \in Worlds}
    /\ build = IdleBuild /\ hres = IdleHres /\ hostTol = 0

CallGetAdjacentRoom ==
    /\ ~probe.called
    /\ LET r == get_adjacent_room(probe.world)
       IN probe' = [probe EXCEPT !.called = TRUE, !.queries = r.queries,
                                 !.room = r.room]
    /\ UNCHANGED <<libvars, build, hres, hostTol>>

SpecRoom == InitRoom /\ [][CallGetAdjacentRoom]_vars

\* create_split_profile(face, height) for any face and height
InitProfile ==
    /\ InitLib
    /\ build \in {[IdleBuild EXCEPT !.face = face, !.h = h] :
                     face \in ProfileFaces, h \in ProfileHeights}
    /\ hostTol \in HostTols
    /\ probe = IdleProbe /\ hres = IdleHres

CallCreateSplitProfile ==
    /\ ~build.called
    /\ build' = [build EXCEPT !.called = TRUE,
                    !.result = create_split_profile(build.face, build.h, hostTol)]
    /\ UNCHANGED <<libvars, probe, hres, hostTol>>

SpecProfile == InitProfile /\ [][CallCreateSplitProfile]_vars

\* utils.calculate_room_height(room) for any room
InitHeight ==
    /\ InitLib
    /\ hres \in {[IdleHres EXCEPT !.room = r] : r \in BoundsRooms}
    /\ probe = IdleProbe /\ build = IdleBuild /\ hostTol = 0

CallUtilsCalculateRoomHeight ==
    /\ ~hres.called
    /\ hres' = [hres EXCEPT !.called = TRUE,
                   !.result = utils_calculate_room_height(hres.room)]
    /\ UNCHANGED <<libvars, probe, build, hostTol>>

SpecHeight == InitHeight /\ [][CallUtilsCalculateRoomHeight]_vars

----------------------------------------------------------------------------
(* Properties *)

\* the candidate points in the order P+e1*N, P-e1*N, P+e2*N, P-e2*N, ...
CandidateOrder ==
    [i \in 1..(2 * Len(EPSILONS)) |->
        IF i % 2 = 1 THEN EPSILONS[(i + 1) \div 2] ELSE -EPSILONS[i \div 2]]

SetMin(S) == CHOOSE m \in S : \A x \in S : m <= x

\* the end of each curve is within TOLERANCE of the start of the next one,
\* the last one wrapping around to the first
ClosedWithinT(loop) ==
    \A i \in 1..Len(loop) :
        ShorterThanTol(loop[i].p1, loop[(i % Len(loop)) + 1].p0)

IsVertical(c) == c.p0[1] = c.p1[1] /\ c.p0[2] = c.p1[2] /\ c.p0[3] # c.p1[3]
IsLevelAt(c, z) == c.p0[3] = z /\ c.p1[3] = z

\* the text is absent or is no decimal number
NotNumeric(value) ==
    \/ value.isNone
    \/ value.text = <<>>
    \/ \E i \in 1..Len(value.text) : ~IsDigit(value.text[i]) /\ value.text[i] # "."

\* the attribute is absent, is no string, or holds no number
BadAttribute(param) ==
    ~param.present \/ param.storage # "String" \/ NotNumeric(param.value)

\* C1: when the run is over, the loop body was entered for every side face of
\* every wall, whatever happened to the faces before it.
C1_EveryFaceProcessed ==
    pc = "done" =>
        \A i \in 1..nwalls : \A j \in 1..nfaces[i] : <<i, j>> \in visited

\* C2: get_adjacent_room returns the room of the first candidate point, in the
\* order P+e1*N, P-e1*N, P+e2*N, ..., that is inside a room, after querying
\* exactly the candidates up to that one; it returns no room exactly when no
\* candidate is inside a room, after querying them all.
C2_FirstHitInOrder ==
    probe.called =>
        LET hits == {i \in 1..Len(CandidateOrder) :
                        probe.world[CandidateOrder[i]] # NoRoom}
        IN IF hits = {}
           THEN probe.room = NoRoom /\ probe.queries = CandidateOrder
           ELSE /\ probe.room = probe.world[CandidateOrder[SetMin(hits)]]
                /\ probe.queries = SubSeq(CandidateOrder, 1, SetMin(hits))

\* a room is found at the second magnitude on the negative side only
C2_Witness ==
    /\ probe.called
    /\ probe.world[1] = NoRoom /\ probe.world[-1] = NoRoom
    /\ probe.world[10] = NoRoom /\ probe.world[-10] = 2 /\ probe.world[100] = 1
    /\ probe.room = 2

\* C3: for a face of vertical extent H, create_split_profile with h <= 0 or
\* h >= H fails as height out of range and assembles nothing; it returns a
\* profile only when 0 < h < H.
C3_HeightOutOfRange ==
    (build.called /\ build.face.edges # <<>>) =>
        LET H == Extent(build.face.edges)
        IN /\ (build.h <= 0 \/ build.h >= H) =>
                 /\ ~build.result.ok
                 /\ build.result.reason = "HeightOutOfRange"
                 /\ build.result.profile = None
                 /\ build.result.assembled = <<>>
           /\ build.result.ok => (0 < build.h /\ build.h < H)

\* the target height equals the full extent of the face
C3_Witness ==
    /\ build.called /\ build.face = RectFace /\ build.h = BigH
    /\ build.result.reason = "HeightOutOfRange"

\* C4: for a rectangular face and 0 < h < H, create_split_profile succeeds
\* with a loop of 4 curves, the bottom curve, 2 vertical connectors and the
\* top curve at h above the bottom, of vertical extent h.
C4_RectangleGivesFourCurves ==
    (build.called /\ build.face \in RectangularFaces
        /\ 0 < build.h /\ build.h < Extent(build.face.edges)) =>
        LET loop == build.result.profile
            z0 == SeqMin(AllZ(build.face.edges))
        IN /\ build.result.ok
           /\ Len(loop) = 4
           /\ Cardinality({i \in 1..Len(loop) : IsLevelAt(loop[i], z0)}) = 1
           /\ Cardinality({i \in 1..Len(loop) : IsVertical(loop[i])}) = 2
           /\ Cardinality({i \in 1..Len(loop) : IsLevelAt(loop[i], z0 + build.h)}) = 1
           /\ Extent(loop) = build.h

\* C5: every profile create_split_profile has returned to the main loop, and
\* so every profile passed to SplitFace, is closed: each curve ends within T
\* of the start of the next one, the last one of the start of the first.
C5_ProfileClosed ==
    /\ profile # None => ClosedWithinT(profile)
    /\ pc = "split" => profile # None

\* a profile is about to be passed to SplitFace
C5_Witness == pc = "split" /\ profile # None /\ Len(profile) >= 2

\* C6: when the room's attribute is absent, is no string or holds no number,
\* the height stage ends with a failure entry for the face, without a split,
\* and the loop goes on with the next face of the same wall.
C6_BadAttributeSkipsFace ==
    [][(pc = "height" /\ BadAttribute(room.param)) =>
          /\ pc' = "face" /\ w' = w /\ f' = f + 1
          /\ splits' = splits
          /\ Len(logs') > Len(logs)
          /\ logs'[Len(logs')] = Entry(w, f, "InvalidHeight")]_vars

\* C7: utils.calculate_room_height returns the unbounded height when it is
\* not zero, else (upper elevation + limit offset) - (base elevation + base
\* offset); upper 10, limit offset 2, base 0, base offset 1 give 11.
C7_BoundsHeight ==
    hres.called =>
        /\ hres.result =
              IF hres.room.UnboundedHeight # 0 THEN hres.room.UnboundedHeight
              ELSE (hres.room.UpperLimitElevation + hres.room.LimitOffset)
                   - (hres.room.LevelElevation + hres.room.BaseOffset)
        /\ hres.room = MockRoom(0, 1, 2, 0, 10) => hres.result = 11

\* the room of the unit test
C7_Witness ==
    hres.called /\ hres.room = MockRoom(0, 1, 2, 0, 10) /\ hres.result = 11

\* C8: the edit scope is acquired once and released once, every SplitFace
\* call happens while it is held, and it is released however the run ends.
C8_ScopeReleasedOnEveryExit ==
    /\ acquired <= 1 /\ released <= 1
    /\ splitTx \subseteq {"held"}
    /\ pc \in {"done", "aborted"} =>
          (tx = "released" /\ acquired = 1 /\ released = 1)

\* C9: no connector shorter than T is in the assembled loop, and a loop
\* without any connector is never returned as a profile.
C9_NoConnectorsFails ==
    build.called =>
        /\ \A i \in 1..Len(build.result.assembled) :
              ~ShorterThanTol(build.result.assembled[i].p0,
                              build.result.assembled[i].p1)
        /\ build.result.ok =>
              \E i \in 1..Len(build.result.profile) :
                  IsVertical(build.result.profile[i])

\* C10: every wall that was processed has left at least one entry in logs,
\* also a wall without side faces.
C10_EveryWallLeavesRecord ==
    \A i \in 1..nwalls :
        (i < w /\ pc # "collect") => \E k \in 1..Len(logs) : logs[k].wall = i

====
